---------------------------- MODULE Spec2Model ----------------------------
(***************************************************************************)
(* Model of palletinator: the grid assembler (engine.Palletinator) and the *)
(* side/column aggregator, design resolution and transposer of             *)
(* pallet_program (parse_sides, flip_pallet_sides, PalletConfig.build_from)*)
(***************************************************************************)
EXTENDS Integers, Sequences, FiniteSets, TLC

VARIABLES
    \* ---- shared by parse_pallet and parse_sides ----
    rows,            \* the `rows` argument (build_from pops its last element)
    repeat_columns,  \* the `repeat_columns` argument / local
    row_i,           \* number of rows the outer loop has finished
    status,          \* "running" | "returned" | "raised"
    visited,         \* per (row, side) visit: the row, the side, the `columns` used
    \* ---- engine.Palletinator.parse_pallet ----
    pallet,          \* the local `pallet`
    \* ---- pallet_program ----
    pc,              \* the function the control is in
    last,            \* build_from's `last` (None when parse_sides is called directly)
    sides,           \* parse_sides' `sides`: side -> column -> list of ids
    column_designs_cache,
    last_used_design_number,
    last_used_design_image,
    output,          \* parse_sides' `output`
    resolved,        \* per resolved slot: what the lookup and the fetch did
    data,            \* flip_pallet_sides' argument
    result,          \* what the call returned
    \* ---- the design catalog (OnSiteDesign), outside the program ----
    catalog          \* the design numbers it holds

sharedVars == <<rows, repeat_columns, row_i, status, visited>>

programVars == <<pc, last, sides, column_designs_cache, last_used_design_number,
                 last_used_design_image, output, resolved, data, result>>

vars == <<sharedVars, pallet, programVars, catalog>>

(***************************************************************************)
(* Bounds and input sets                                                   *)
(***************************************************************************)
MaxRows == 2

\* lists handed to flip_pallet_sides directly
MaxLists == 2

\* `sides` lists fed to parse_pallet (0 and -1 are the non-positive addresses)
GridSideLists == { <<1>>, <<1, 2>>, <<3, 3>>, <<0>>, <<-1>> }

\* `columns` lists fed to parse_pallet (5 is the sentinel when it comes first)
GridColumnLists == { <<1, 2>>, <<1, 1>>, <<2, 5>>, <<5>>, <<0>>, <<-1>> }

\* each row carries its own item id
ZppkOf(i) == IF i = 1 THEN "ZPPK-1234" ELSE "ZPPK-" \o ToString(i)

\* every list of n engine.Row records
GridRowLists(n) ==
    { [k \in 1..n |-> [baby_zppk |-> ZppkOf(k), sides |-> f[k][1], columns |-> f[k][2]]] :
        f \in [1..n -> GridSideLists \X GridColumnLists] }

(***************************************************************************)
(* Helpers                                                                 *)
(***************************************************************************)
\* Optional values: None, or Some(x)
None == <<>>

Some(x) == <<x>>

Range(s) == { s[k] : k \in DOMAIN s }

Max(S) == IF S = {} THEN 0 ELSE CHOOSE m \in S : \A x \in S : x <= m

\* list(range(1, n + 1))
RangeList(n) == [k \in 1..n |-> k]

\* Python's list[idx]: the 1-based position list[idx] denotes, 0 for IndexError
PyIndex(len, idx) ==
    IF idx >= 0
    THEN IF idx < len THEN idx + 1 ELSE 0
    ELSE IF -idx <= len THEN len + idx + 1 ELSE 0

(***************************************************************************)
(* pallet.py                                                               *)
(***************************************************************************)
PalletCell(text, key) == [display_text |-> text, metadata |-> [design_key |-> key]]

PalletColumn == [cells |-> <<>>]

PalletSide == [columns |-> <<>>]

Pallet == [metadata |-> <<>>, sides |-> <<>>]

(***************************************************************************)
(* engine.Palletinator.parse_pallet                                        *)
(***************************************************************************)
\* the padding loop with `<=` for `<`: one side too many
PadSidesOneMore(pallet_sides, side) ==
    IF Len(pallet_sides) <= side
    THEN pallet_sides \o [k \in 1..(side + 1 - Len(pallet_sides)) |-> PalletSide]
    ELSE pallet_sides

\* while len(pallet.sides) < side: pallet.sides.append(PalletSide())
PadSides(pallet_sides, side) ==
    IF Len(pallet_sides) < side
    THEN pallet_sides \o [k \in 1..(side - Len(pallet_sides)) |-> PalletSide]
    ELSE pallet_sides

\* while len(pallet_side.columns) < column: ...append(PalletColumn())
PadColumns(columns, column) ==
    IF Len(columns) < column
    THEN columns \o [k \in 1..(column - Len(columns)) |-> PalletColumn]
    ELSE columns

\* the heuristic with the parity test inverted
GridColumnsParitySwapped(repeat, row, side) ==
    IF repeat \/ row.columns[1] = 5
    THEN RangeList(IF side % 2 = 0 THEN 3 ELSE 2)
    ELSE row.columns

\* lines 33-37: the `columns` the inner loop runs over
GridColumns(repeat, row, side) ==
    IF repeat \/ row.columns[1] = 5
    THEN RangeList(IF side % 2 = 0 THEN 2 ELSE 3)
    ELSE row.columns

\* lines 40-51 from the k-th column on; [ok, side]
RECURSIVE PlaceColumns(_, _, _, _)
PlaceColumns(pallet_side, columns, k, text) ==
    IF k > Len(columns) THEN [ok |-> TRUE, side |-> pallet_side]
    ELSE LET padded == PadColumns(pallet_side.columns, columns[k])
             pos    == PyIndex(Len(padded), columns[k] - 1)
         IN IF pos = 0 THEN [ok |-> FALSE, side |-> pallet_side]
            ELSE PlaceColumns(
                   [columns |-> [padded EXCEPT ![pos].cells =
                                    Append(@, PalletCell(text, "[FIXME]"))]],
                   columns, k + 1, text)

\* lines 29-51 from the k-th side of `row` on; [ok, pallet, visited]
RECURSIVE PlaceSides(_, _, _, _, _)
PlaceSides(p, seen, row, k, repeat) ==
    IF k > Len(row.sides) THEN [ok |-> TRUE, pallet |-> p, visited |-> seen]
    ELSE LET side    == row.sides[k]
             padded  == PadSides(p.sides, side)
             columns == GridColumns(repeat, row, side)
             seen2   == Append(seen, [row |-> row, side |-> side, columns |-> columns])
             pos     == PyIndex(Len(padded), side - 1)
         IN IF pos = 0
            THEN [ok |-> FALSE, pallet |-> [p EXCEPT !.sides = padded], visited |-> seen2]
            ELSE LET placed == PlaceColumns(padded[pos], columns, 1, row.baby_zppk)
                     p2     == [p EXCEPT !.sides = [padded EXCEPT ![pos] = placed.side]]
                 IN IF placed.ok
                    THEN PlaceSides(p2, seen2, row, k + 1, repeat)
                    ELSE [ok |-> FALSE, pallet |-> p2, visited |-> seen2]

\* the pallet_program variables while parse_pallet runs
ProgramIdle ==
    /\ pc = "parse_pallet"
    /\ last = None
    /\ sides = <<>>
    /\ column_designs_cache = <<>>
    /\ last_used_design_number = None
    /\ last_used_design_image = None
    /\ output = <<>>
    /\ resolved = <<>>
    /\ data = <<>>
    /\ result = None
    /\ catalog = {}

GridInit ==
    /\ rows \in UNION { GridRowLists(n) : n \in 0..MaxRows }
    /\ repeat_columns \in BOOLEAN
    /\ row_i = 0
    /\ pallet = Pallet
    /\ status = "running"
    /\ visited = <<>>
    /\ ProgramIdle

\* one iteration of `for row in rows`
ParseRow ==
    /\ status = "running"
    /\ row_i < Len(rows)
    /\ LET r == PlaceSides(pallet, visited, rows[row_i + 1], 1, repeat_columns)
       IN /\ pallet' = r.pallet
          /\ visited' = r.visited
          /\ status' = IF r.ok THEN "running" ELSE "raised"
    /\ row_i' = row_i + 1
    /\ UNCHANGED <<rows, repeat_columns, programVars, catalog>>

\* return pallet
ReturnPallet ==
    /\ status = "running"
    /\ row_i = Len(rows)
    /\ status' = "returned"
    /\ UNCHANGED <<rows, repeat_columns, row_i, pallet, visited, programVars, catalog>>

GridNext == ParseRow \/ ReturnPallet

GridSpec == GridInit /\ [][GridNext]_vars

(***************************************************************************)
(* pallet_program: inputs                                                  *)
(***************************************************************************)
\* `sides` and `columns` lists of the rows fed to parse_sides
SideLists == { <<1>>, <<2>> }

ColumnLists == { <<1>>, <<2>>, <<1, 1>>, <<1, 1, 1>>, <<5>> }

\* `sides`/`columns` of a group's last row (build_from pops it unread)
LastRowLists == { <<<<2>>, <<5>>>> }

\* the lists handed to flip_pallet_sides directly: every list of 5 entries
\* over two values, and lists that are too short or too long
FlipLists ==
    { <<a, b, c, d, e>> : a \in {"id-1", "id-2"}, b \in {"id-1", "id-2"},
                          c \in {"id-1", "id-2"}, d \in {"id-1", "id-2"},
                          e \in {"image-1", "image-2"} }
    \cup { <<>>, <<"id-1", "image-1">>, <<"id-1", "id-2", "id-1", "image-1">>,
           <<"id-1", "id-2", "id-1", "id-2", "id-1", "image-1">> }

\* the rows of the runs that exercise the design resolution
FewRows == { <<<<1>>, <<1>>>>, <<<<2>>, <<1>>>>, <<<<1>>, <<5>>>> }

\* the design numbers the catalog holds
DesignNumbers == { 0, 1, 2 }

\* the catalogs of the runs that exercise the aggregation
SmallCatalogs == { {}, {1} }

\* what session.scalars(...).first() can return
LookupResults(designs) == {None} \cup { Some(d) : d \in designs }

Digit(k) == ToString(k)

\* the k-th pallet_program.Row of a sheet; strings read by characters are
\* sequences of characters
SheetRow(k, row_sides, row_columns, count) ==
    [ callout                |-> "CALLOUT-" \o Digit(k),
      parent_zppk            |-> "PARENT-" \o Digit(k),
      baby_zppk              |-> ZppkOf(k),
      team_key               |-> <<"T", "K", Digit(k)>>,
      team_name              |-> "TEAM-" \o Digit(k),
      requested_pallet_count |-> count,
      dc_target              |-> "DC-" \o Digit(k),
      color_description      |-> <<"R", "E", "D", ",", "W", Digit(k)>>,
      logo_description       |-> <<"W", "I", "L", "D", "C", "A", "T", "S", Digit(k)>>,
      sides                  |-> row_sides,
      columns                |-> row_columns ]

\* every list of n rows, none of which ends a group, with `sides` and
\* `columns` from `lists`
SheetRowLists(n, lists) ==
    { [k \in 1..n |-> SheetRow(k, f[k][1], f[k][2], 0)] : f \in [1..n -> lists] }

\* every group generate_pallet_detail_sheets builds: n rows and the row with
\* a nonzero requested_pallet_count that ends it
Groups(n) ==
    { body \o <<SheetRow(n + 1, l[1], l[2], 7)>> :
        body \in SheetRowLists(n, SideLists \X ColumnLists), l \in LastRowLists }

(***************************************************************************)
(* pallet_program.parse_sides, first loop                                  *)
(***************************************************************************)
\* dict[key] = value
Put(dict, key, value) ==
    [x \in DOMAIN dict \cup {key} |-> IF x = key THEN value ELSE dict[x]]

\* s[:n]
Prefix(s, n) == SubSeq(s, 1, IF Len(s) < n THEN Len(s) ELSE n)

\* s.replace(",", "")
StripCommas(s) == SelectSeq(s, LAMBDA ch : ch # ",")

\* lines 146-152: " ".join((logo[:7], color.replace(",", ""), team_key))
DesignKey(row) ==
    Prefix(row.logo_description, 7) \o <<" ">> \o
    StripCommas(row.color_description) \o <<" ">> \o row.team_key

\* line 135-136: the flag after this (row, side)
RepeatAfter(repeat, row) == repeat \/ row.columns[1] = 5

\* lines 135-140: the `columns` the inner loop runs over
SideColumns(repeat, row, side) ==
    LET first == IF row.columns[1] = 5
                 THEN (IF side % 2 = 0 THEN <<2>> ELSE <<3>>)
                 ELSE row.columns
    IN IF RepeatAfter(repeat, row) THEN RangeList(first[1]) ELSE first

\* lines 141-153 from the j-th column on; [sides, cache]
RECURSIVE AddColumns(_, _, _, _, _, _)
AddColumns(sd, cache, row, side, columns, j) ==
    IF j > Len(columns) THEN [sides |-> sd, cache |-> cache]
    ELSE LET column == columns[j]
             sd1    == IF side \in DOMAIN sd THEN sd ELSE Put(sd, side, <<>>)
             fresh  == column \notin DOMAIN sd1[side]
             sd2    == IF fresh THEN Put(sd1, side, Put(sd1[side], column, <<>>)) ELSE sd1
             cache2 == IF fresh THEN Put(cache, <<side, column>>, DesignKey(row)) ELSE cache
             sd3    == Put(sd2, side, Put(sd2[side], column,
                                          Append(sd2[side][column], row.baby_zppk)))
         IN AddColumns(sd3, cache2, row, side, columns, j + 1)

\* lines 134-153 from the k-th side of `row` on; [sides, cache, repeat, visited]
RECURSIVE AddSides(_, _, _, _, _, _)
AddSides(sd, cache, repeat, seen, row, k) ==
    IF k > Len(row.sides)
    THEN [sides |-> sd, cache |-> cache, repeat |-> repeat, visited |-> seen]
    ELSE LET side    == row.sides[k]
             columns == SideColumns(repeat, row, side)
             added   == AddColumns(sd, cache, row, side, columns, 1)
         IN AddSides(added.sides, added.cache, RepeatAfter(repeat, row),
                     Append(seen, [row |-> row, side |-> side, columns |-> columns,
                                   repeat |-> RepeatAfter(repeat, row)]),
                     row, k + 1)

(***************************************************************************)
(* pallet_program.parse_sides, second loop                                 *)
(***************************************************************************)
RECURSIVE Sorted(_)
Sorted(S) ==
    IF S = {} THEN <<>>
    ELSE LET m == CHOOSE x \in S : \A y \in S : x <= y
         IN <<m>> \o Sorted(S \ {m})

RECURSIVE Flatten(_)
Flatten(ss) == IF ss = <<>> THEN <<>> ELSE Head(ss) \o Flatten(Tail(ss))

\* lines 158-160: the (side_key, column_key) pairs in the order the loops visit them
SlotOrder(sd) ==
    LET side_keys == Sorted(DOMAIN sd)
    IN Flatten([i \in DOMAIN side_keys |->
                  LET column_keys == Sorted(DOMAIN sd[side_keys[i]])
                  IN [j \in DOMAIN column_keys |-> <<side_keys[i], column_keys[j]>>]])

\* the capacity cut taken from the front: row[:4]
TrimFirstFour(row) == IF Len(row) > 4 THEN SubSeq(row, 1, 4) ELSE row

\* lines 162-163
Trim(row) == IF Len(row) > 4 THEN SubSeq(row, Len(row) - 3, Len(row)) ELSE row

\* the reuse test without its truthiness guard
ReusesWheneverEqual(design_number, last_number) == design_number = last_number

\* line 169: `design_number and design_number == last_used_design_number`
Reuses(design_number, last_number) ==
    /\ design_number # None
    /\ design_number[1] # 0
    /\ design_number = last_number

\* get_image_for_design(design_number, (70, 70)) when it returns
DesignImage(design_number) == <<"base64", design_number[1]>>

\* f"{key_=} {design_number=}"
Fallback(key, design_number) == <<"key_=", key, " design_number=", design_number>>

(***************************************************************************)
(* pallet_program.flip_pallet_sides                                        *)
(***************************************************************************)
heads == <<"XS (13) / S (13)", "M (30)", "L (32)", "XL (20)", "IMAGE">>

\* line 191 raises IndexError: some lst has no element `index`
FlipRaises(lists) ==
    \E index \in DOMAIN heads : \E j \in DOMAIN lists : Len(lists[j]) < index

\* the pivot with the lists taken in reverse order
FlipTableReversed(lists) ==
    [index \in DOMAIN heads |->
        <<heads[index]>> \o [j \in DOMAIN lists |-> lists[Len(lists) + 1 - j][index]]]

\* lines 189-192, when no index is out of range
FlipTable(lists) ==
    [index \in DOMAIN heads |->
        <<heads[index]>> \o [j \in DOMAIN lists |-> lists[j][index]]]

(***************************************************************************)
(* pallet_program: the calls                                               *)
(***************************************************************************)
ProgramStart ==
    /\ row_i = 0
    /\ status = "running"
    /\ visited = <<>>
    /\ pallet = Pallet
    /\ sides = <<>>
    /\ column_designs_cache = <<>>
    /\ last_used_design_number = None
    /\ last_used_design_image = None
    /\ output = <<>>
    /\ resolved = <<>>
    /\ result = None

\* PalletConfig.build_from(group), or parse_sides(rows, repeat_columns=...)
SidesInit ==
    /\ ProgramStart
    /\ data = <<>>
    /\ last = None
    /\ catalog \in SmallCatalogs
    /\ \/ /\ pc = "build_from"
          /\ rows \in {<<>>} \cup UNION { Groups(n) : n \in 0..MaxRows }
          /\ repeat_columns = FALSE
       \/ /\ pc = "parse_sides"
          /\ rows \in UNION { SheetRowLists(n, SideLists \X ColumnLists) : n \in 0..MaxRows }
          /\ repeat_columns \in BOOLEAN

\* parse_sides(rows) against a catalog that holds every design number
ResolveInit ==
    /\ ProgramStart
    /\ data = <<>>
    /\ last = None
    /\ catalog = DesignNumbers
    /\ pc = "parse_sides"
    /\ rows \in UNION { SheetRowLists(n, FewRows) : n \in 0..MaxRows }
    /\ repeat_columns = FALSE

\* build_from, lines 111-118: rows.pop(), then the arguments read before
\* parse_sides is called (rows[-1] among them)
BuildFrom ==
    /\ pc = "build_from"
    /\ status = "running"
    /\ IF Len(rows) = 0
       THEN /\ status' = "raised"
            /\ UNCHANGED <<rows, last, pc>>
       ELSE /\ last' = Some(rows[Len(rows)])
            /\ rows' = SubSeq(rows, 1, Len(rows) - 1)
            /\ IF Len(rows) = 1
               THEN status' = "raised" /\ pc' = pc
               ELSE status' = status /\ pc' = "parse_sides"
    /\ UNCHANGED <<repeat_columns, row_i, visited, pallet, sides, column_designs_cache,
                   last_used_design_number, last_used_design_image, output, resolved,
                   data, result, catalog>>

\* parse_sides: one iteration of `for row in rows`
AddRow ==
    /\ pc = "parse_sides"
    /\ status = "running"
    /\ row_i < Len(rows)
    /\ LET r == AddSides(sides, column_designs_cache, repeat_columns, visited,
                         rows[row_i + 1], 1)
       IN /\ sides' = r.sides
          /\ column_designs_cache' = r.cache
          /\ repeat_columns' = r.repeat
          /\ visited' = r.visited
    /\ row_i' = row_i + 1
    /\ UNCHANGED <<rows, status, pallet, pc, last, last_used_design_number,
                   last_used_design_image, output, resolved, data, result, catalog>>

\* parse_sides: one iteration of the loops of lines 158-182; the catalog
\* answers design_number, the image fetch succeeds (fetch_ok) or raises
ResolveSlot(design_number, fetch_ok) ==
    /\ pc = "parse_sides"
    /\ status = "running"
    /\ row_i = Len(rows)
    /\ Len(output) < Len(SlotOrder(sides))
    /\ LET slot    == SlotOrder(sides)[Len(output) + 1]
           current == sides[slot[1]][slot[2]]
           row     == Trim(current)
           key_    == column_designs_cache[slot]
           reuse   == Reuses(design_number, last_used_design_number)
           image   == IF reuse THEN last_used_design_image
                      ELSE IF design_number # None /\ fetch_ok
                           THEN DesignImage(design_number)
                           ELSE Fallback(key_, design_number)
           done    == Append(row, image)
       IN /\ last_used_design_number' =
                IF reuse THEN last_used_design_number ELSE design_number
          /\ last_used_design_image' = image
          /\ output' = Append(output, done)
          /\ sides' = IF Len(current) > 4 THEN sides
                      ELSE Put(sides, slot[1], Put(sides[slot[1]], slot[2], done))
          /\ resolved' = Append(resolved,
                [ slot |-> slot, accumulated |-> current,
                  design_number |-> design_number,
                  fetched |-> ~reuse /\ design_number # None,
                  failed |-> ~reuse /\ design_number # None /\ ~fetch_ok ])
    /\ UNCHANGED <<sharedVars, pallet, pc, last, column_designs_cache, data, result,
                   catalog>>

\* parse_sides: return output
ReturnOutput ==
    /\ pc = "parse_sides"
    /\ status = "running"
    /\ row_i = Len(rows)
    /\ Len(output) = Len(SlotOrder(sides))
    /\ IF last = None
       THEN /\ result' = Some(output)
            /\ status' = "returned"
            /\ UNCHANGED <<pc, data>>
       ELSE /\ data' = output
            /\ pc' = "flip_pallet_sides"
            /\ UNCHANGED <<result, status>>
    /\ UNCHANGED <<rows, repeat_columns, row_i, visited, pallet, last, sides,
                   column_designs_cache, last_used_design_number,
                   last_used_design_image, output, resolved, catalog>>

\* flip_pallet_sides(data); under build_from the table becomes the config's sides
FlipPalletSides ==
    /\ pc = "flip_pallet_sides"
    /\ status = "running"
    /\ IF FlipRaises(data)
       THEN status' = "raised" /\ result' = result
       ELSE /\ status' = "returned"
            /\ result' = IF last = None THEN Some(FlipTable(data))
                         ELSE Some(
                              [ callout        |-> last[1].callout,
                                dc_target      |-> last[1].dc_target,
                                zppk           |-> rows[Len(rows)].parent_zppk,
                                team_name      |-> rows[Len(rows)].team_name,
                                team_key       |-> rows[Len(rows)].team_key,
                                pallet_type    |-> "TOWER",
                                required_count |-> last[1].requested_pallet_count,
                                sides          |-> FlipTable(data) ])
    /\ UNCHANGED <<rows, repeat_columns, row_i, visited, pallet, pc, last, sides,
                   column_designs_cache, last_used_design_number,
                   last_used_design_image, output, resolved, data, catalog>>

SidesNext ==
    \/ BuildFrom
    \/ AddRow
    \/ \E design_number \in LookupResults(catalog), fetch_ok \in BOOLEAN :
          ResolveSlot(design_number, fetch_ok)
    \/ ReturnOutput
    \/ FlipPalletSides

SidesSpec == SidesInit /\ [][SidesNext]_vars

\* flip_pallet_sides(data)
FlipInit ==
    /\ ProgramStart
    /\ last = None
    /\ catalog = {}
    /\ pc = "flip_pallet_sides"
    /\ rows = <<>>
    /\ repeat_columns = FALSE
    /\ \E lists \in UNION { [1..n -> FlipLists] : n \in 0..MaxLists } :
          data = lists

FlipSpec == FlipInit /\ [][FlipPalletSides]_vars

ResolveNext ==
    \/ AddRow
    \/ \E design_number \in LookupResults(catalog), fetch_ok \in BOOLEAN :
          ResolveSlot(design_number, fetch_ok)
    \/ ReturnOutput

ResolveSpec == ResolveInit /\ [][ResolveNext]_vars

(***************************************************************************)
(* Properties                                                              *)
(***************************************************************************)
Count(seq, x) == Cardinality({ k \in DOMAIN seq : seq[k] = x })

Copies(n, x) == [k \in 1..n |-> x]

Last(seq) == seq[Len(seq)]

\* [1,2] on an even side, [1,2,3] on an odd side
ParityColumns(side) == IF side % 2 = 0 THEN <<1, 2>> ELSE <<1, 2, 3>>

\* the cells rows rs owe to column c of side s: one per (row, side, column)
\* occurrence, in row order
RECURSIVE ExpectedCells(_, _, _)
ExpectedCells(rs, s, c) ==
    IF rs = <<>> THEN <<>>
    ELSE Copies(Count(Head(rs).sides, s) * Count(Head(rs).columns, c),
                PalletCell(Head(rs).baby_zppk, "[FIXME]"))
         \o ExpectedCells(Tail(rs), s, c)

NamedSides == UNION { Range(rows[k].sides) : k \in DOMAIN rows }

ColumnsOn(s) ==
    UNION { Range(rows[k].columns) : k \in { j \in DOMAIN rows : s \in Range(rows[j].sides) } }

\* the precondition of C1: repeat_columns off, positive addresses, no sentinel
GridContract ==
    /\ pc = "parse_pallet"
    /\ ~repeat_columns
    /\ \A k \in DOMAIN rows :
          /\ \A s \in Range(rows[k].sides) : s > 0
          /\ \A c \in Range(rows[k].columns) : c > 0
          /\ rows[k].columns[1] # 5

\* C1: under the contract parse_pallet returns (never raises) a dense Pallet:
\* as many sides as the largest side named, on each side as many columns as
\* the largest column placed on it, and in column c of side s exactly one
\* cell per (row, s, c) occurrence in row order, each with the row's
\* baby_zppk and design_key "[FIXME]"; everything else is empty padding.
C1_DensePallet ==
    GridContract =>
        /\ status # "raised"
        /\ status = "returned" =>
              /\ Len(pallet.sides) = Max(NamedSides)
              /\ \A s \in DOMAIN pallet.sides :
                    /\ Len(pallet.sides[s].columns) = Max(ColumnsOn(s))
                    /\ \A c \in DOMAIN pallet.sides[s].columns :
                          pallet.sides[s].columns[c].cells = ExpectedCells(rows, s, c)

\* two rows stacked in one column, and an empty padding column
C1_Witness ==
    /\ GridContract
    /\ status = "returned"
    /\ Len(rows) >= 2
    /\ \E s \in DOMAIN pallet.sides : \E c, d \in DOMAIN pallet.sides[s].columns :
          /\ Len(pallet.sides[s].columns[c].cells) >= 2
          /\ pallet.sides[s].columns[c].cells[1].display_text
                # Last(pallet.sides[s].columns[c].cells).display_text
          /\ pallet.sides[s].columns[d].cells = <<>>

\* C2: at every (row, side) visit of parse_pallet the columns used are [1,2]
\* (even side) or [1,2,3] (odd side) when repeat_columns is set or the row's
\* first column is 5, and the row's own columns otherwise; the decision looks
\* at that row alone.
C2_EffectiveColumns ==
    pc = "parse_pallet" =>
        \A k \in DOMAIN visited :
            visited[k].columns =
                IF repeat_columns \/ visited[k].row.columns[1] = 5
                THEN ParityColumns(visited[k].side)
                ELSE visited[k].row.columns

\* a sentinel row on an even and on an odd side, then a row that keeps its columns
C2_Witness ==
    /\ pc = "parse_pallet"
    /\ ~repeat_columns
    /\ \E i, j, k \in DOMAIN visited :
          /\ i < j /\ j < k
          /\ visited[i].row.columns[1] = 5 /\ visited[i].columns = <<1, 2, 3>>
          /\ visited[j].row.columns[1] = 5 /\ visited[j].columns = <<1, 2>>
          /\ visited[k].row.columns[1] # 5
          /\ visited[k].columns = visited[k].row.columns

\* C3: parse_pallet never returns a Pallet after it has used a side or a
\* column value <= 0 as an address.
C3_FailFast ==
    (pc = "parse_pallet" /\ status = "returned") =>
        \A k \in DOMAIN visited :
            /\ visited[k].side > 0
            /\ \A c \in Range(visited[k].columns) : c > 0

\* C4: in parse_sides a sentinel row turns repeat-columns mode on, the mode
\* stays on, every visit in the mode uses [1,2] (even side) or [1,2,3] (odd
\* side) whatever the row's columns, and a visit outside it uses the row's
\* own columns.
C4_RepeatModeColumns ==
    pc # "parse_pallet" =>
        \A k \in DOMAIN visited :
            /\ visited[k].row.columns[1] = 5 => visited[k].repeat
            /\ (k > 1 /\ visited[k - 1].repeat) => visited[k].repeat
            /\ visited[k].repeat => visited[k].columns = ParityColumns(visited[k].side)
            /\ ~visited[k].repeat => visited[k].columns = visited[k].row.columns

\* the ids the visits so far put into slot (s, c), in order
RECURSIVE Accumulated(_, _, _)
Accumulated(seen, s, c) ==
    IF seen = <<>> THEN <<>>
    ELSE (IF Head(seen).side = s
          THEN Copies(Count(Head(seen).columns, c), Head(seen).row.baby_zppk)
          ELSE <<>>)
         \o Accumulated(Tail(seen), s, c)

IdPortion(list) == SubSeq(list, 1, Len(list) - 1)

\* C5: the id portion of every emitted list has 1 to 4 entries: the last 4
\* accumulated ids in order when the slot accumulated more than 4, and all
\* of them in order otherwise.
C5_LastFour ==
    pc # "parse_pallet" =>
        \A k \in DOMAIN output :
            LET ids == IdPortion(output[k])
                acc == Accumulated(visited, resolved[k].slot[1], resolved[k].slot[2])
            IN /\ Len(ids) >= 1 /\ Len(ids) <= 4
               /\ Len(acc) > 4 => ids = SubSeq(acc, Len(acc) - 3, Len(acc))
               /\ Len(acc) <= 4 => ids = acc

\* a slot with more than 4 ids whose last 4 differ from its first 4
C5_Witness ==
    /\ pc # "parse_pallet"
    /\ \E k \in DOMAIN output :
          LET acc == Accumulated(visited, resolved[k].slot[1], resolved[k].slot[2])
          IN /\ Len(acc) > 4
             /\ SubSeq(acc, 1, 4) # SubSeq(acc, Len(acc) - 3, Len(acc))
             /\ IdPortion(output[k]) = SubSeq(acc, Len(acc) - 3, Len(acc))

SlotBefore(a, b) == a[1] < b[1] \/ (a[1] = b[1] /\ a[2] < b[2])

\* C6: slots are resolved in ascending (side, column) order; two adjacent
\* slots whose lookups return the same design identifier get the same image
\* with no second fetch; a slot whose identifier differs from its
\* predecessor's takes nothing from it.
C6_AdjacentReuse ==
    pc # "parse_pallet" =>
        \A k \in DOMAIN resolved : k > 1 =>
            /\ SlotBefore(resolved[k - 1].slot, resolved[k].slot)
            /\ (/\ resolved[k].design_number # None
                /\ resolved[k].design_number = resolved[k - 1].design_number)
                  => /\ Last(output[k]) = Last(output[k - 1])
                     /\ ~resolved[k].fetched
            /\ (/\ resolved[k].design_number # None
                /\ resolved[k].design_number # resolved[k - 1].design_number)
                  => resolved[k].fetched

\* C7: whatever the lookups and fetches do, parse_sides does not raise and
\* returns one list per accumulated slot, each the trimmed ids and one image
\* value; where the lookup found nothing or the slot's fetch raised, that
\* value is the fallback built from the slot's own cached key and the
\* identifier found.
C7_MissesNonFatal ==
    pc # "parse_pallet" =>
        /\ status # "raised"
        /\ \A k \in DOMAIN resolved :
              /\ Len(output[k]) =
                    1 + (IF Len(resolved[k].accumulated) > 4 THEN 4
                         ELSE Len(resolved[k].accumulated))
              /\ (resolved[k].design_number = None \/ resolved[k].failed) =>
                    Last(output[k]) =
                        Fallback(column_designs_cache[resolved[k].slot],
                                 resolved[k].design_number)
        /\ status = "returned" =>
              /\ result = Some(output)
              /\ Len(output) = Cardinality(DOMAIN column_designs_cache)
              /\ { resolved[k].slot : k \in DOMAIN resolved } = DOMAIN column_designs_cache

\* a run that returned after a miss and a failed fetch on slots with different keys
C7_Witness ==
    /\ pc = "parse_sides"
    /\ status = "returned"
    /\ \E j, k \in DOMAIN resolved :
          /\ j < k
          /\ resolved[j].design_number = None
          /\ resolved[k].failed
          /\ column_designs_cache[resolved[j].slot] # column_designs_cache[resolved[k].slot]
          /\ Last(output[j]) = Fallback(column_designs_cache[resolved[j].slot], None)

\* C8: flip_pallet_sides returns no table when some inner list's length is not 5.
C8_MismatchRaises ==
    (pc = "flip_pallet_sides" /\ status = "returned") =>
        \A j \in DOMAIN data : Len(data[j]) = Len(heads)

\* C9: build_from on a group of at least 2 rows pops the last row, does not
\* raise, and returns a config with callout, dc_target and required_count of
\* the popped row, zppk, team_name and team_key of the now-last row, and as
\* sides the 5 header rows over the aggregated slots in ascending order, the
\* "IMAGE" row holding each slot's image value.
C9_BuildFromConfig ==
    (last # None /\ Len(rows) >= 1) =>
        /\ status # "raised"
        /\ status = "returned" =>
              /\ result # None
              /\ result[1].callout = last[1].callout
              /\ result[1].dc_target = last[1].dc_target
              /\ result[1].required_count = last[1].requested_pallet_count
              /\ result[1].zppk = Last(rows).parent_zppk
              /\ result[1].team_name = Last(rows).team_name
              /\ result[1].team_key = Last(rows).team_key
              /\ Len(result[1].sides) = 5
              /\ \A i \in 1..5 :
                    /\ result[1].sides[i][1] = heads[i]
                    /\ Len(result[1].sides[i]) = 1 + Len(output)
              /\ \A k \in DOMAIN output :
                    /\ (k > 1 => SlotBefore(resolved[k - 1].slot, resolved[k].slot))
                    /\ result[1].sides[5][k + 1] = Last(output[k])

\* stripping the headers of a table and regrouping by column index
Unflip(table) ==
    [j \in 1..(Len(table[1]) - 1) |-> [i \in DOMAIN table |-> table[i][j + 1]]]

\* C10: for N >= 0 lists of exactly 5 entries flip_pallet_sides returns 5
\* rows, row i being header i followed by entry i of each list in input
\* order; data is left as it was, and un-flipping the table gives data back.
C10_FaithfulPivot ==
    (pc = "flip_pallet_sides" /\ last = None
        /\ \A j \in DOMAIN data : Len(data[j]) = 5) =>
        /\ status # "raised"
        /\ status = "returned" =>
              /\ Len(result[1]) = 5
              /\ \A i \in 1..5 :
                    /\ Len(result[1][i]) = 1 + Len(data)
                    /\ result[1][i][1] = heads[i]
                    /\ \A j \in DOMAIN data : result[1][i][j + 1] = data[j][i]
              /\ Unflip(result[1]) = data

\* two different lists of 5 entries pivoted
C10_Witness ==
    /\ pc = "flip_pallet_sides" /\ last = None
    /\ status = "returned"
    /\ Len(data) = 2
    /\ data[1] # data[2]
    /\ \A j \in DOMAIN data : Len(data[j]) = 5
    /\ Unflip(result[1]) = data

=============================================================================
